---- MODULE Spec2Model ----
(***************************************************************************)
(* A model of warp64.c: key derivation (deriveKey), the windowed           *)
(* byte-substitution transform (process64), the file orchestration         *)
(* (warp64) and the argument checks of main.                               *)
(*                                                                         *)
(* Characters are their ASCII codes, strings are sequences of codes,       *)
(* bytes are 0..255, a file is a sequence of bytes (or NoFile).            *)
(***************************************************************************)
EXTENDS Integers, Sequences, FiniteSets, TLC

VARIABLES
  \* ---- key derivation (SpecKey) ----
  kSecret,      \* the secret handed to deriveKey
  kResult,      \* <<>>, then <<the value deriveKey returned>>
  kInverted,    \* <<>>, then <<the descrambling key warp64 makes of it>>
  \* ---- main (SpecMain) ----
  mpc,          \* position in main
  argMode,      \* argv[1]
  argPath,      \* argv[2]
  mStatus,      \* main's status
  mDescramble,  \* main's descramble
  input_suffixed,
  mOutputPath,  \* main's pOutputPath (<<>> while NULL)
  keyRead,      \* readKey has been called
  called,       \* warp64 has been called
  \* ---- warp64 / process64 (Spec) ----
  fs,           \* the two files: path -> bytes or NoFile
  pc,           \* position in warp64 / process64
  made,         \* history: <<>>, or <<what the file at ScrPath was scrambled from>>
  run,          \* parameters and bookkeeping of the current run
  w,            \* locals of warp64
  p             \* locals of process64

keyVars  == <<kSecret, kResult, kInverted>>
mainVars == <<mpc, argMode, argPath, mStatus, mDescramble, input_suffixed,
              mOutputPath, keyRead, called>>
runVars  == <<fs, pc, made, run, w, p>>
vars     == <<keyVars, mainVars, runVars>>

(***************************************************************************)
(* Bounds of the model.                                                    *)
(***************************************************************************)
MaxSecretLen == 5     \* longest secret handed to deriveKey in SpecKey
MaxLen       == 3     \* longest plain content
MaxWin       == 3     \* largest window size m_winsize
MaxRuns      == 2     \* runs of warp64 in one behaviour
MaxFaults    == 1     \* system calls that fail for an outside reason, per run
MaxPrefix    == 2     \* longest path prefix in SpecMain

(***************************************************************************)
(* Arithmetic of C.                                                        *)
(***************************************************************************)
\* C's % truncates toward zero: the sign of the result is that of a.
CRem(a, b) == IF a >= 0 THEN a % b ELSE 0 - ((0 - a) % b)

\* a ^ b on the low n bits: bit n - 1 and, below it, the lower bits
RECURSIVE XorBits(_, _, _)
XorBits(a, b, n) ==
  IF n = 0 THEN 0
  ELSE ((((a \div (2 ^ (n - 1))) % 2) + ((b \div (2 ^ (n - 1))) % 2)) % 2)
          * (2 ^ (n - 1))
       + XorBits(a, b, n - 1)

\* a ^ b on the 24-bit values deriveKey mixes
Xor24(a, b) == XorBits(a, b, 24)

(***************************************************************************)
(* decode64                                                                *)
(***************************************************************************)
decode64Mut(c) ==
  IF c >= 65 /\ c <= 90 THEN c - 65
  ELSE IF c >= 97 /\ c <= 122 THEN (c - 97) + 26
  ELSE IF c >= 48 /\ c <= 57 THEN (c - 48) + 52
  ELSE IF c = 43 \/ c = 45 THEN 62
  ELSE IF c = 47 THEN 63
  ELSE -1

decode64(c) ==
  IF c >= 65 /\ c <= 90 THEN c - 65
  ELSE IF c >= 97 /\ c <= 122 THEN (c - 97) + 26
  ELSE IF c >= 48 /\ c <= 57 THEN (c - 48) + 52
  ELSE IF c = 43 THEN 62
  ELSE IF c = 47 THEN 63
  ELSE -1

(***************************************************************************)
(* deriveKey                                                               *)
(***************************************************************************)
\* the three extension characters
ExtMut(pKey) ==
  IF Len(pKey) = 1 THEN <<pKey[1], 65, 65>>
  ELSE IF Len(pKey) = 2 THEN <<pKey[1], pKey[2], pKey[1]>>
  ELSE <<pKey[1], pKey[2], pKey[3]>>

Ext(pKey) ==
  IF Len(pKey) = 1 THEN <<pKey[1], pKey[1], pKey[1]>>
  ELSE IF Len(pKey) = 2 THEN <<pKey[1], pKey[2], pKey[1]>>
  ELSE <<pKey[1], pKey[2], pKey[3]>>

\* the next four characters b64[0..3] of the remaining key, padded with ext
FillB64Mut(rest, ext) ==
  IF Len(rest) = 1 THEN <<rest[1], 65, 65, 65>>
  ELSE IF Len(rest) = 2 THEN <<rest[1], rest[2], 65, 65>>
  ELSE IF Len(rest) = 3 THEN <<rest[1], rest[2], rest[3], 65>>
  ELSE <<rest[1], rest[2], rest[3], rest[4]>>

FillB64(rest, ext) ==
  IF Len(rest) = 1 THEN <<rest[1], ext[1], ext[2], ext[3]>>
  ELSE IF Len(rest) = 2 THEN <<rest[1], rest[2], ext[1], ext[2]>>
  ELSE IF Len(rest) = 3 THEN <<rest[1], rest[2], rest[3], ext[1]>>
  ELSE <<rest[1], rest[2], rest[3], rest[4]>>

\* what is left of the key after that group
Advance(rest) ==
  IF Len(rest) <= 4 THEN <<>> ELSE SubSeq(rest, 5, Len(rest))

\* the four characters packed into an integer, -1 on a bad character
PackB64(b64) ==
  IF \E i \in 1..4 : decode64(b64[i]) < 0 THEN -1
  ELSE ((decode64(b64[1]) * 64 + decode64(b64[2])) * 64
          + decode64(b64[3])) * 64 + decode64(b64[4])

\* the while loop: -1 on a bad character, else the mixed key
RECURSIVE MixLoop(_, _, _)
MixLoop(rest, ext, mixed) ==
  IF Len(rest) = 0 THEN mixed
  ELSE LET acc == PackB64(FillB64(rest, ext))
       IN  IF acc < 0 THEN -1
           ELSE MixLoop(Advance(rest), ext, Xor24(mixed, acc))

\* unpack into cbc[0..2]
Unpack(key) == << (key \div 65536) % 256, (key \div 256) % 256, key % 256 >>

\* repack three octets
Repack(kb) == kb[1] * 65536 + kb[2] * 256 + kb[3]

\* the replacements that make sure no component is zero
NoZeroMut(cbc) == cbc

NoZero(cbc) ==
  << IF cbc[1] = 0 THEN 1 ELSE cbc[1],
     IF cbc[2] = 0 THEN 2 ELSE cbc[2],
     IF cbc[3] = 0 THEN 4 ELSE cbc[3] >>

\* (the singleton binds mixed to its value, so that it is computed once)
deriveKey(pKey) ==
  IF Len(pKey) < 1 THEN -1
  ELSE CHOOSE result \in
         { IF mixed < 0 THEN -1 ELSE Repack(NoZero(Unpack(mixed))) :
             mixed \in {MixLoop(pKey, Ext(pKey), 0)} } : TRUE

(***************************************************************************)
(* warp64: turning the scrambling key into the descrambling key.           *)
(* -1 stands for the abort() on a zero component.                          *)
(***************************************************************************)
InvertByteMut(b) == b

InvertByte(b) == (256 - b) % 256

InvertKey(key) ==
  LET kb == Unpack(key)
  IN  IF \E i \in 1..3 : kb[i] = 0 THEN -1
      ELSE Repack([i \in 1..3 |-> InvertByte(kb[i])])

(***************************************************************************)
(* SpecKey: deriveKey applied to every secret of a bounded set, and the    *)
(* key inversion of warp64 applied to what it returns.                     *)
(***************************************************************************)
SeqsUpTo(S, n) == UNION { [1..m -> S] : m \in 0..n }

\* '+' '-' '/' '0' 'A' 'a': one character of each branch of decode64
KeyChars == {43, 45, 47, 48, 65, 97}

MainIdle ==
  /\ mpc = "off" /\ argMode = <<>> /\ argPath = <<>> /\ mStatus = 1
  /\ mDescramble = 0 /\ input_suffixed = 0 /\ mOutputPath = <<>>
  /\ keyRead = FALSE /\ called = FALSE

RunIdle ==
  /\ fs = <<>> /\ pc = "off" /\ made = <<>> /\ run = <<>> /\ w = <<>>
  /\ p = <<>>

KeyIdle == kSecret = <<>> /\ kResult = <<>> /\ kInverted = <<>>

InitKey ==
  /\ kSecret \in SeqsUpTo(KeyChars, MaxSecretLen)
  /\ kResult = <<>>
  /\ kInverted = <<>>
  /\ MainIdle
  /\ RunIdle

K_Derive ==
  /\ kResult = <<>>
  /\ kResult' = <<deriveKey(kSecret)>>
  /\ UNCHANGED <<kSecret, kInverted, mainVars, runVars>>

K_Invert ==
  /\ kResult # <<>>
  /\ kResult[1] >= 0
  /\ kInverted = <<>>
  /\ kInverted' = <<InvertKey(kResult[1])>>
  /\ UNCHANGED <<kSecret, kResult, mainVars, runVars>>

NextKey == K_Derive \/ K_Invert

SpecKey == InitKey /\ [][NextKey]_vars

(***************************************************************************)
(* C5. Non-zero key bytes: whenever deriveKey succeeds, each of the three  *)
(* octets of the key it returns is in 1..255, and the key inversion of     *)
(* warp64 applied to it never reaches its abort.                           *)
(***************************************************************************)
C5_NonZeroKeyBytes ==
  /\ (kResult # <<>> /\ kResult[1] >= 0) =>
        \A i \in 1..3 : Unpack(kResult[1])[i] \in 1..255
  /\ kInverted # <<>> => kInverted[1] >= 0

\* a secret whose mixed key is all zero has been derived and inverted
C5_Witness ==
  /\ kSecret = <<65>>
  /\ kResult = <<66052>>
  /\ kInverted # <<>>

(***************************************************************************)
(* C6. A one-character secret "x" and its repetition "xxx" derive the same *)
(* key.                                                                    *)
(***************************************************************************)
C6_RepeatSameKey ==
  (kResult # <<>> /\ Len(kSecret) = 1) =>
     kResult[1] = deriveKey(<<kSecret[1], kSecret[1], kSecret[1]>>)

\* a valid one-character secret has been derived
C6_Witness ==
  /\ Len(kSecret) = 1
  /\ kResult # <<>>
  /\ kResult[1] >= 0

(***************************************************************************)
(* main: the checks of an invocation with two parameters, up to the call   *)
(* of warp64.                                                              *)
(***************************************************************************)
\* FILE_SUFFIX, ".warp64"
FILE_SUFFIX == <<46, 119, 97, 114, 112, 54, 52>>

\* strcmp(&(pInputPath[slen - suflen]), FILE_SUFFIX) == 0, for slen >= suflen
TailIsSuffix(path) ==
  SubSeq(path, Len(path) - Len(FILE_SUFFIX) + 1, Len(path)) = FILE_SUFFIX

\* input_suffixed as main computes it
InputSuffixed(path) ==
  IF Len(path) > Len(FILE_SUFFIX)
    THEN (IF TailIsSuffix(path) THEN 1 ELSE 0)
    ELSE 0

\* "-s", "-d" and an unknown mode "-x"
ArgModes == { <<45, 115>>, <<45, 100>>, <<45, 120>> }

\* 'x' '/' '.'
PathChars == {120, 47, 46}

\* "", ".warp64", ".warp6", "warp64", ".warp64x"
PathTails ==
  { <<>>, FILE_SUFFIX, SubSeq(FILE_SUFFIX, 1, 6), SubSeq(FILE_SUFFIX, 2, 7),
    FILE_SUFFIX \o <<120>> }

ArgPaths ==
  { pre \o tail : pre \in SeqsUpTo(PathChars, MaxPrefix), tail \in PathTails }

InitMain ==
  /\ mpc = "mode"
  /\ argMode \in ArgModes
  /\ argPath \in ArgPaths
  /\ mStatus = 1
  /\ mDescramble = 0
  /\ input_suffixed = 0
  /\ mOutputPath = <<>>
  /\ keyRead = FALSE
  /\ called = FALSE
  /\ KeyIdle
  /\ RunIdle

\* Determine whether scrambling or descrambling
M_Mode ==
  /\ mpc = "mode"
  /\ IF argMode = <<45, 115>>
       THEN mDescramble' = 0 /\ mStatus' = 1 /\ mpc' = "suffix"
     ELSE IF argMode = <<45, 100>>
       THEN mDescramble' = 1 /\ mStatus' = 1 /\ mpc' = "suffix"
     ELSE mDescramble' = mDescramble /\ mStatus' = 0 /\ mpc' = "exit"
  /\ UNCHANGED <<argMode, argPath, input_suffixed, mOutputPath, keyRead,
                 called, keyVars, runVars>>

\* Determine whether the input path has a .warp64 suffix, and make sure the
\* presence of the suffix matches the mode
M_Suffix ==
  /\ mpc = "suffix"
  /\ input_suffixed' = InputSuffixed(argPath)
  /\ IF (mDescramble = 1 /\ input_suffixed' = 0)
          \/ (mDescramble = 0 /\ input_suffixed' = 1)
       THEN mStatus' = 0 /\ mpc' = "exit"
       ELSE mStatus' = 1 /\ mpc' = "stat"
  /\ UNCHANGED <<argMode, argPath, mDescramble, mOutputPath, keyRead,
                 called, keyVars, runVars>>

\* Make sure the input path is for an existing regular file
M_Stat ==
  /\ mpc = "stat"
  /\ \E regular \in BOOLEAN :
       IF regular THEN mStatus' = 1 /\ mpc' = "outpath"
                  ELSE mStatus' = 0 /\ mpc' = "exit"
  /\ UNCHANGED <<argMode, argPath, mDescramble, input_suffixed, mOutputPath,
                 keyRead, called, keyVars, runVars>>

\* Derive the output file path
M_OutPath ==
  /\ mpc = "outpath"
  /\ LET slen   == Len(argPath)
         suflen == Len(FILE_SUFFIX)
     IN  IF mDescramble = 1
           THEN IF slen <= suflen
                  THEN mStatus' = mStatus /\ mOutputPath' = mOutputPath
                       /\ mpc' = "abort"
                ELSE IF argPath[slen - suflen] = 47
                  THEN mStatus' = 0 /\ mOutputPath' = mOutputPath
                       /\ mpc' = "exit"
                ELSE mStatus' = 1
                     /\ mOutputPath' = SubSeq(argPath, 1, slen - suflen)
                     /\ mpc' = "readkey"
           ELSE mStatus' = 1 /\ mOutputPath' = argPath \o FILE_SUFFIX
                /\ mpc' = "readkey"
  /\ UNCHANGED <<argMode, argPath, mDescramble, input_suffixed, keyRead,
                 called, keyVars, runVars>>

\* Read the key
M_ReadKey ==
  /\ mpc = "readkey"
  /\ keyRead' = TRUE
  /\ \E ok \in BOOLEAN :
       IF ok THEN mStatus' = 1 /\ mpc' = "call"
             ELSE mStatus' = 0 /\ mpc' = "exit"
  /\ UNCHANGED <<argMode, argPath, mDescramble, input_suffixed, mOutputPath,
                 called, keyVars, runVars>>

\* Call the main program function
M_Call ==
  /\ mpc = "call"
  /\ called' = TRUE
  /\ \E ok \in BOOLEAN : mStatus' = (IF ok THEN 1 ELSE 0)
  /\ mpc' = "exit"
  /\ UNCHANGED <<argMode, argPath, mDescramble, input_suffixed, mOutputPath,
                 keyRead, keyVars, runVars>>

NextMain ==
  M_Mode \/ M_Suffix \/ M_Stat \/ M_OutPath \/ M_ReadKey \/ M_Call

SpecMain == InitMain /\ [][NextMain]_vars

\* the path ends with the literal suffix ".warp64"
EndsWithSuffix(path) ==
  /\ Len(path) >= Len(FILE_SUFFIX)
  /\ SubSeq(path, Len(path) - Len(FILE_SUFFIX) + 1, Len(path)) = FILE_SUFFIX

(***************************************************************************)
(* C10. Suffix/mode rule: an invocation gets as far as reading the key     *)
(* (and so as far as warp64, which alone creates and deletes files) only   *)
(* if, in mode -d, the path ends with ".warp64" and, in mode -s, the path  *)
(* does not end with ".warp64".                                            *)
(***************************************************************************)
C10_SuffixModeRule ==
  (keyRead \/ called) =>
     IF mDescramble = 1 THEN EndsWithSuffix(argPath)
                        ELSE ~EndsWithSuffix(argPath)

(***************************************************************************)
(* Files.  A path holds <<>> (no file) or <<bytes>> (a file).              *)
(***************************************************************************)
NoFile == <<>>
File(bytes) == <<bytes>>
Exists(f) == f # NoFile
Bytes(f) == f[1]

\* an input path without the suffix and the path main derives from it
PlainPath == "f"
ScrPath   == "f.warp64"
Paths     == {PlainPath, ScrPath}

\* pInputPath and pOutputPath as main passes them to warp64
InputPathOf(descramble)  == IF descramble = 1 THEN ScrPath ELSE PlainPath
OutputPathOf(descramble) == IF descramble = 1 THEN PlainPath ELSE ScrPath

(***************************************************************************)
(* process64: the pure parts.                                              *)
(***************************************************************************)
\* (pd[k])[j]
DictMut(kb, k, j) == (j + kb[1]) % 256

Dict(kb, k, j) == (j + kb[k + 1]) % 256

\* the size of the current window
WinSizeMut(winsize, remc) == winsize

WinSize(winsize, remc) == IF remc < winsize THEN remc ELSE winsize

\* the size of the current input window
InWinSize(ws, remi) == IF remi < ws THEN remi ELSE ws

\* the remaining input at entry
InitRemiMut(trailer, olen) == olen - 3

InitRemi(trailer, olen) == IF trailer = 1 THEN olen - 3 ELSE olen

\* the remaining input after a window
NextRemiMut(remi, ws) == remi - ws

NextRemi(remi, ws) == IF remi - ws < 0 THEN 0 ELSE remi - ws

\* the dictionary index of the first byte of a window
WindowKMut(base) == 0

WindowK(base) == base % 3

\* byte i of the window: k has advanced by one (mod 3) per byte
WindowByte(input, kb, base, wsi, i) ==
  Dict(kb, (WindowK(base) + i) % 3, IF i < wsi THEN input[base + i + 1] ELSE 0)

\* the output file after the window at base has been computed
WriteWindow(out, input, kb, base, ws, wsi) ==
  [n \in 1..Len(out) |->
     IF n - 1 >= base /\ n - 1 < base + ws
       THEN WindowByte(input, kb, base, wsi, n - 1 - base)
       ELSE out[n]]

\* the loop of process64 when no mapping or unmapping fails
RECURSIVE ProcessFrom(_, _, _, _, _, _, _)
ProcessFrom(input, kb, winsize, base, remc, remi, out) ==
  IF remc <= 0 THEN out
  ELSE LET ws  == WinSize(winsize, remc)
           wsi == InWinSize(ws, remi)
       IN  ProcessFrom(input, kb, winsize, base + ws, remc - ws,
                       NextRemi(remi, ws),
                       WriteWindow(out, input, kb, base, ws, wsi))

\* the output of a whole call of process64 on a pre-sized output file
Process64Out(input, key, trailer, olen, winsize) ==
  ProcessFrom(input, Unpack(key), winsize, 0, olen, InitRemi(trailer, olen),
              [n \in 1..olen |-> 0])

(***************************************************************************)
(* warp64: the pure parts.                                                 *)
(***************************************************************************)
\* the index of the scrambling key to use for the first byte of the head
RotationZMut(ctlen) == CRem(ctlen, 3)

RotationZ(ctlen) == 3 - CRem(ctlen - 3, 3)

\* the index (z + i) % 3 into the trailer, with the remainder of C
TrailerIndex(z, i) == CRem(z + i, 3)

\* the re-ordered trailer bytes packed into an integer
PackTrailer(trailer, z) ==
  (trailer[TrailerIndex(z, 0) + 1] * 256
     + trailer[TrailerIndex(z, 1) + 1]) * 256
     + trailer[TrailerIndex(z, 2) + 1]

\* the last three bytes of a file of at least three bytes
LastThree(bytes) == SubSeq(bytes, Len(bytes) - 2, Len(bytes))

\* the provided scrambling key is the one the trailer holds
KeyMatchesMut(key, tk) == key # tk

KeyMatches(key, tk) == key = tk

\* the output file is removed: there was a failure and new_file is set
RemoveOutputMut(status, new_file) == status = 0

RemoveOutput(status, new_file) == status = 0 /\ new_file = 1

\* the length of the output
OutputLenMut(descramble, ctlen) == ctlen + 3

OutputLen(descramble, ctlen) == IF descramble = 1 THEN ctlen ELSE ctlen + 3

(***************************************************************************)
(* Spec: runs of warp64 on the two paths of one file.                      *)
(***************************************************************************)
ContentBytes == {0, 200}

\* "", "-", "A", "AAA", "B/"
RunSecrets == { <<>>, <<45>>, <<65>>, <<65, 65, 65>>, <<66, 47>> }

\* a file too short to hold a trailer
Stray == File(<<9>>)

NoRun ==
  [n |-> 0, descramble |-> 0, pKey |-> <<>>, winsize |-> 1, faults |-> 0,
   pre |-> <<>>, from |-> <<>>]

W0 ==
  [status |-> 1, key |-> 0, tk |-> 0, ctlen |-> 0, olen |-> 0, z |-> 0,
   trailer |-> <<0, 0, 0>>, new_file |-> 0, fIn |-> -1, fOut |-> -1,
   err |-> "", processed |-> FALSE]

P0 ==
  [status |-> 1, key |-> 0, trailer |-> 0, olen |-> 0, kb |-> <<0, 0, 0>>,
   base |-> 0, remc |-> 0, remi |-> 0, ws |-> 0, wsi |-> 0,
   pwo |-> "NULL", pwi |-> "NULL", outMaps |-> 0, inMaps |-> 0,
   munmapArgs |-> {}, munmapFailed |-> FALSE, windows |-> 0]

Init ==
  /\ \E c \in SeqsUpTo(ContentBytes, MaxLen) :
       \E o \in {NoFile, Stray} :
          fs = [x \in Paths |-> IF x = PlainPath THEN File(c) ELSE o]
  /\ pc = "idle"
  /\ made = <<>>
  /\ run = NoRun
  /\ w = W0
  /\ p = P0
  /\ KeyIdle
  /\ MainIdle

in  == InputPathOf(run.descramble)
out == OutputPathOf(run.descramble)

\* the step fails: status = 0, the message is recorded, and every block up
\* to the closing of the handles is skipped
Fails(e) ==
  /\ w' = [w EXCEPT !.status = 0, !.err = e]
  /\ pc' = "close"

\* a system call fails for a reason outside the program
CanFault == run.faults < MaxFaults
Fault    == run' = [run EXCEPT !.faults = @ + 1]

\* main calls warp64 (one process per run, with its own m_winsize)
StartRun ==
  /\ pc \in {"idle", "done"}
  /\ run.n < MaxRuns
  /\ \E d \in {0, 1}, k \in RunSecrets, ws \in 1..MaxWin :
       run' = [n |-> run.n + 1, descramble |-> d, pKey |-> k, winsize |-> ws,
               faults |-> 0, pre |-> fs, from |-> made]
  /\ w' = W0
  /\ p' = P0
  /\ pc' = "derive"
  /\ UNCHANGED <<fs, made, keyVars, mainVars>>

\* Derive the normalized key
W_Derive ==
  /\ pc = "derive"
  /\ \E key \in {deriveKey(run.pKey)} :
       IF key < 0
         THEN Fails("bad key")
         ELSE w' = [w EXCEPT !.key = key] /\ pc' = "open"
  /\ UNCHANGED <<fs, made, run, p, keyVars, mainVars>>

\* Open the input file for reading
W_Open ==
  /\ pc = "open"
  /\ \E ok \in BOOLEAN :
       /\ ok \/ CanFault
       /\ IF Exists(fs[in]) /\ ok
            THEN w' = [w EXCEPT !.fIn = 3] /\ pc' = "length" /\ UNCHANGED run
            ELSE /\ Fails("open")
                 /\ IF Exists(fs[in]) THEN Fault ELSE UNCHANGED run
  /\ UNCHANGED <<fs, made, p, keyVars, mainVars>>

\* Get the length of the input file, and rewind
W_Length ==
  /\ pc = "length"
  /\ \E r \in {"ok", "length", "rewind"} :
       /\ r = "ok" \/ CanFault
       /\ IF r = "ok"
            THEN /\ w' = [w EXCEPT !.ctlen = Len(Bytes(fs[in]))]
                 /\ pc' = IF run.descramble = 1 THEN "trailer" ELSE "create"
                 /\ UNCHANGED run
            ELSE Fails(r) /\ Fault
  /\ UNCHANGED <<fs, made, p, keyVars, mainVars>>

\* Descrambling: the input must hold a trailer, which is not content
W_Trailer ==
  /\ pc = "trailer"
  /\ IF w.ctlen < 3
       THEN Fails("missing trailer")
       ELSE w' = [w EXCEPT !.ctlen = w.ctlen - 3] /\ pc' = "verify"
  /\ UNCHANGED <<fs, made, run, p, keyVars, mainVars>>

\* Descrambling: read the last three bytes and check the key
W_Verify ==
  /\ pc = "verify"
  /\ \E r \in {"ok", "seek trailer", "read trailer", "rewind"} :
       /\ r = "ok" \/ CanFault
       /\ IF r = "ok"
            THEN LET t  == LastThree(Bytes(fs[in]))
                     z  == RotationZ(w.ctlen)
                     tk == PackTrailer(t, z)
                 IN  /\ IF KeyMatches(w.key, tk)
                          THEN /\ w' = [w EXCEPT !.trailer = t, !.z = z,
                                                 !.tk = tk]
                               /\ pc' = "create"
                          ELSE /\ w' = [w EXCEPT !.trailer = t, !.z = z,
                                                 !.tk = tk, !.status = 0,
                                                 !.err = "incorrect key"]
                               /\ pc' = "close"
                     /\ UNCHANGED run
            ELSE Fails(r) /\ Fault
  /\ UNCHANGED <<fs, made, p, keyVars, mainVars>>

\* Open the output file for writing; do not allow existing files to be
\* overwritten; set new_file if a new file was created
W_Create ==
  /\ pc = "create"
  /\ \E ok \in BOOLEAN :
       /\ ok \/ CanFault
       /\ IF ~Exists(fs[out]) /\ ok
            THEN /\ fs' = [fs EXCEPT ![out] = File(<<>>)]
                 /\ w' = [w EXCEPT !.fOut = 4, !.new_file = 1]
                 /\ pc' = "olen"
                 /\ UNCHANGED run
            ELSE /\ Fails("create")
                 /\ IF ~Exists(fs[out]) THEN Fault ELSE UNCHANGED run
                 /\ UNCHANGED fs
  /\ UNCHANGED <<made, p, keyVars, mainVars>>

\* Compute the length of the output file (content lengths stay far below
\* INT64_MAX - 3); only process further if it is non-zero
W_Olen ==
  /\ pc = "olen"
  /\ LET olen == OutputLen(run.descramble, w.ctlen)
     IN  /\ w' = [w EXCEPT !.olen = olen]
         /\ pc' = IF olen > 0 THEN "presize" ELSE "close"
  /\ UNCHANGED <<fs, made, run, p, keyVars, mainVars>>

\* Expand the output file to the proper length: one byte written at the
\* last offset, then a rewind
W_Presize ==
  /\ pc = "presize"
  /\ \E r \in {"ok", "write", "rewind"} :
       /\ r = "ok" \/ CanFault
       /\ fs' = [fs EXCEPT ![out] =
                   IF r = "write" THEN @ ELSE File([n \in 1..w.olen |-> 0])]
       /\ IF r = "ok"
            THEN /\ pc' = IF run.descramble = 1 THEN "invert" ELSE "process"
                 /\ UNCHANGED <<w, run>>
            ELSE Fails("set output length") /\ Fault
  /\ UNCHANGED <<made, p, keyVars, mainVars>>

\* Descrambling: turn the scrambling key into a descrambling key
W_Invert ==
  /\ pc = "invert"
  /\ LET inv == InvertKey(w.key)
     IN  IF inv < 0
           THEN pc' = "abort" /\ UNCHANGED w
           ELSE w' = [w EXCEPT !.key = inv] /\ pc' = "process"
  /\ UNCHANGED <<fs, made, run, p, keyVars, mainVars>>

\* Process the file: the call of process64, up to its loop
W_Process ==
  /\ pc = "process"
  /\ LET trailer == IF run.descramble = 1 THEN 0 ELSE 1
     IN  IF w.olen < 1 \/ (trailer = 1 /\ w.olen < 3)
           THEN pc' = "abort" /\ UNCHANGED <<p, w>>
           ELSE /\ p' = [P0 EXCEPT !.key = w.key, !.trailer = trailer,
                                   !.olen = w.olen, !.kb = Unpack(w.key),
                                   !.base = 0, !.remc = w.olen,
                                   !.remi = InitRemi(trailer, w.olen)]
                /\ w' = [w EXCEPT !.processed = TRUE]
                /\ pc' = "p_loop"
  /\ UNCHANGED <<fs, made, run, keyVars, mainVars>>

(***************************************************************************)
(* process64: the loop over the windows.  pwo and pwi are the pointers     *)
(* ("NULL", "MAPPED", or "MAP_FAILED"); outMaps and inMaps count the       *)
(* mappings of this call that are alive; munmapArgs holds the pointers     *)
(* munmap has been called with, munmapFailed tells that an munmap of a     *)
(* mapping has failed (the mapping then stays).                            *)
(***************************************************************************)
\* the step fails: status = 0; the rest of the loop body is skipped and
\* the condition of the loop is tested next
PFails(q) == p' = [q EXCEPT !.status = 0] /\ pc' = "p_loop"

\* the mappings alive after a successful munmap of one of n
ReleaseMut(n) == n

Release(n) == n - 1

\* Keep processing until no bytes are left: the sizes of the window
P_Loop ==
  /\ pc = "p_loop"
  /\ IF p.status = 1 /\ p.remc > 0
       THEN LET ws == WinSize(run.winsize, p.remc)
            IN  /\ p' = [p EXCEPT !.ws = ws, !.wsi = InWinSize(ws, p.remi)]
                /\ pc' = "p_mapout"
       ELSE pc' = "p_cleanup" /\ UNCHANGED p
  /\ UNCHANGED <<fs, made, run, w, keyVars, mainVars>>

\* Map the current output window
P_MapOut ==
  /\ pc = "p_mapout"
  /\ \E ok \in BOOLEAN :
       /\ ok \/ CanFault
       /\ IF ok
            THEN /\ p' = [p EXCEPT !.pwo = "MAPPED", !.outMaps = @ + 1]
                 /\ pc' = "p_mapin"
                 /\ UNCHANGED run
            ELSE PFails([p EXCEPT !.pwo = "MAP_FAILED"]) /\ Fault
  /\ UNCHANGED <<fs, made, w, keyVars, mainVars>>

\* Map the current input window if non-empty
P_MapIn ==
  /\ pc = "p_mapin"
  /\ IF p.wsi > 0
       THEN \E ok \in BOOLEAN :
              /\ ok \/ CanFault
              /\ IF ok
                   THEN /\ p' = [p EXCEPT !.pwi = "MAPPED", !.inMaps = @ + 1]
                        /\ pc' = "p_compute"
                        /\ UNCHANGED run
                   ELSE PFails([p EXCEPT !.pwi = "MAP_FAILED"]) /\ Fault
       ELSE pc' = "p_compute" /\ UNCHANGED <<p, run>>
  /\ UNCHANGED <<fs, made, w, keyVars, mainVars>>

\* Compute all the bytes in the current output window (the output mapping
\* is shared: the bytes are the file's)
P_Compute ==
  /\ pc = "p_compute"
  /\ fs' = [fs EXCEPT ![out] =
              File(WriteWindow(Bytes(@), Bytes(fs[in]), p.kb, p.base, p.ws,
                               p.wsi))]
  /\ pc' = "p_unmapin"
  /\ UNCHANGED <<made, run, w, p, keyVars, mainVars>>

\* Unmap current input window if it was mapped
P_UnmapIn ==
  /\ pc = "p_unmapin"
  /\ IF p.wsi > 0
       THEN \E ok \in BOOLEAN :
              /\ ok \/ CanFault
              /\ IF ok
                   THEN /\ p' = [p EXCEPT !.pwi = "NULL",
                                          !.inMaps = Release(@),
                                          !.munmapArgs = @ \cup {p.pwi}]
                        /\ pc' = "p_unmapout"
                        /\ UNCHANGED run
                   ELSE /\ PFails([p EXCEPT !.pwi = "NULL",
                                            !.munmapArgs = @ \cup {p.pwi},
                                            !.munmapFailed = TRUE])
                        /\ Fault
       ELSE pc' = "p_unmapout" /\ UNCHANGED <<p, run>>
  /\ UNCHANGED <<fs, made, w, keyVars, mainVars>>

\* Unmap current output window
P_UnmapOut ==
  /\ pc = "p_unmapout"
  /\ \E ok \in BOOLEAN :
       /\ ok \/ CanFault
       /\ IF ok
            THEN /\ p' = [p EXCEPT !.pwo = "NULL",
                                   !.outMaps = Release(@),
                                   !.munmapArgs = @ \cup {p.pwo}]
                 /\ pc' = "p_update"
                 /\ UNCHANGED run
            ELSE /\ PFails([p EXCEPT !.pwo = "NULL",
                                     !.munmapArgs = @ \cup {p.pwo},
                                     !.munmapFailed = TRUE])
                 /\ Fault
  /\ UNCHANGED <<fs, made, w, keyVars, mainVars>>

\* Update base remc and remi before going around again
P_Update ==
  /\ pc = "p_update"
  /\ p' = [p EXCEPT !.base = p.base + p.ws, !.remc = p.remc - p.ws,
                    !.remi = NextRemi(p.remi, p.ws),
                    !.windows = p.windows + 1]
  /\ pc' = "p_loop"
  /\ UNCHANGED <<fs, made, run, w, keyVars, mainVars>>

\* After the loop: munmap is called with each window pointer that is not
\* NULL, and the pointer is set to NULL.  An munmap of MAP_FAILED unmaps
\* nothing; the failure f of an munmap of a mapping is only reported.
P_Cleanup ==
  /\ pc = "p_cleanup"
  /\ \E f \in {"none", "in", "out"} :
       /\ f = "in" => (p.pwi = "MAPPED" /\ CanFault)
       /\ f = "out" => (p.pwo = "MAPPED" /\ CanFault)
       /\ p' = [p EXCEPT
                  !.pwi = "NULL",
                  !.inMaps = IF p.pwi = "MAPPED" /\ f # "in"
                               THEN Release(@) ELSE @,
                  !.pwo = "NULL",
                  !.outMaps = IF p.pwo = "MAPPED" /\ f # "out"
                                THEN Release(@) ELSE @,
                  !.munmapArgs = @ \cup ({p.pwi, p.pwo} \ {"NULL"}),
                  !.munmapFailed = @ \/ f # "none"]
       /\ IF f = "none" THEN UNCHANGED run ELSE Fault
  /\ pc' = "p_ret"
  /\ UNCHANGED <<fs, made, w, keyVars, mainVars>>

\* process64 returns its status to warp64
W_Processed ==
  /\ pc = "p_ret"
  /\ w' = [w EXCEPT !.status = IF p.status = 0 THEN 0 ELSE @,
                    !.err = IF p.status = 0 THEN "map" ELSE @]
  /\ pc' = "close"
  /\ UNCHANGED <<fs, made, run, p, keyVars, mainVars>>

\* Close open file handles (a failure is only reported)
W_Close ==
  /\ pc = "close"
  /\ w' = [w EXCEPT !.fIn = -1, !.fOut = -1]
  /\ pc' = "cleanup"
  /\ UNCHANGED <<fs, made, run, p, keyVars, mainVars>>

\* If there was a failure and new_file is set, remove the output file; if
\* we got here successfully, remove the input file; return status.  A
\* failure of unlink is only reported.
W_Finish ==
  /\ pc = "cleanup"
  /\ \E ok \in BOOLEAN :
       /\ ok \/ (CanFault /\ (RemoveOutput(w.status, w.new_file)
                                 \/ w.status = 1))
       /\ IF RemoveOutput(w.status, w.new_file)
            THEN fs' = IF ok THEN [fs EXCEPT ![out] = NoFile] ELSE fs
          ELSE IF w.status = 1
            THEN fs' = IF ok THEN [fs EXCEPT ![in] = NoFile] ELSE fs
          ELSE fs' = fs
       /\ IF ok THEN UNCHANGED run ELSE Fault
       /\ made' = IF run.descramble = 0 /\ w.status = 1
                    THEN << [content |-> Bytes(run.pre[PlainPath]),
                             pKey |-> run.pKey] >>
                  ELSE IF fs'[ScrPath] # run.pre[ScrPath] THEN <<>>
                  ELSE made
  /\ pc' = "done"
  /\ UNCHANGED <<w, p, keyVars, mainVars>>

Next ==
  \/ StartRun
  \/ W_Derive \/ W_Open \/ W_Length \/ W_Trailer \/ W_Verify \/ W_Create
  \/ W_Olen \/ W_Presize \/ W_Invert \/ W_Process
  \/ P_Loop \/ P_MapOut \/ P_MapIn \/ P_Compute \/ P_UnmapIn \/ P_UnmapOut
  \/ P_Update \/ P_Cleanup
  \/ W_Processed \/ W_Close \/ W_Finish

Spec == Init /\ [][Next]_vars

(***************************************************************************)
(* What the claims speak of.                                               *)
(***************************************************************************)
\* the run has ended (warp64 has returned w.status)
Done == pc = "done"

\* the current run descrambles the file an earlier run scrambled, without
\* that file having been touched since
Descrambling ==
  /\ pc \notin {"idle"}
  /\ run.descramble = 1
  /\ run.from # <<>>

\* ... with a valid secret that derives a different key
OtherKey ==
  /\ deriveKey(run.pKey) >= 0
  /\ deriveKey(run.pKey) # deriveKey(run.from[1].pKey)

\* nothing outside the program went wrong in this run: no system call
\* failed, and the output path was free
Undisturbed == run.faults = 0 /\ ~Exists(run.pre[out])

\* the positions of warp64 after the output file has been created
AfterCreate ==
  {"olen", "presize", "invert", "process", "p_loop", "p_mapout", "p_mapin",
   "p_compute", "p_unmapin", "p_unmapout", "p_update", "p_cleanup", "p_ret"}

(***************************************************************************)
(* C1. Round trip: descrambling the file that scrambling C with K made,    *)
(* with the same K, succeeds and produces a file whose bytes are C (when   *)
(* no system call fails and the output path is free).                      *)
(***************************************************************************)
C1_RoundTrip ==
  (Done /\ Descrambling /\ run.pKey = run.from[1].pKey /\ Undisturbed) =>
     /\ w.status = 1
     /\ fs[PlainPath] = File(run.from[1].content)

\* a content of three bytes went through two windows and came back
C1_Witness ==
  /\ Done /\ Descrambling /\ run.pKey = run.from[1].pKey /\ Undisturbed
  /\ Len(run.from[1].content) = 3
  /\ p.windows = 2
  /\ w.status = 1

(***************************************************************************)
(* C2. Key mismatch: descrambling a scrambled file with a secret whose     *)
(* normalized key differs never creates the output file, leaves both       *)
(* files as they were, and ends in failure: with the incorrect-key error   *)
(* unless a system call failed before the check.                           *)
(***************************************************************************)
C2_KeyMismatch ==
  (Descrambling /\ OtherKey) =>
     /\ w.new_file = 0
     /\ fs = run.pre
     /\ pc \notin AfterCreate
     /\ Done => (w.status = 0 /\ (run.faults = 0 => w.err = "incorrect key"))

\* the check of the key has refused a wrong key
C2_Witness ==
  /\ Done /\ Descrambling /\ OtherKey
  /\ w.err = "incorrect key"
  /\ Exists(fs[ScrPath])

(***************************************************************************)
(* C3. Trailer transparency: the last three bytes t of a freshly scrambled *)
(* file, taken as t[(z+i) mod 3], i = 0,1,2, z = (3 - (len(C) mod 3)) mod  *)
(* 3, are the three octets of the normalized key, most significant first.  *)
(***************************************************************************)
C3_TrailerTransparency ==
  (Done /\ run.descramble = 0 /\ w.status = 1) =>
     LET t == LastThree(Bytes(fs[ScrPath]))
         c == Len(Bytes(run.pre[PlainPath]))
         z == (3 - (c % 3)) % 3
     IN  [i \in 1..3 |-> t[((z + i - 1) % 3) + 1]] = Unpack(deriveKey(run.pKey))

\* a content of two bytes (z = 1) has been scrambled with windows of 2 bytes
C3_Witness ==
  /\ Done /\ run.descramble = 0 /\ w.status = 1
  /\ Len(Bytes(run.pre[PlainPath])) = 2
  /\ run.winsize = 2
  /\ Len(Bytes(fs[ScrPath])) = 5

(***************************************************************************)
(* C4. All-or-nothing: when a run ends, either it succeeded, the output    *)
(* file exists in full and the input file is gone; or it failed, no        *)
(* output file this run created remains and the input file is as it was.   *)
(***************************************************************************)
C4_AllOrNothing ==
  Done =>
    IF w.status = 1
      THEN /\ Exists(fs[out])
           /\ Len(Bytes(fs[out])) = w.olen
           /\ ~Exists(fs[in])
      ELSE /\ w.new_file = 1 => ~Exists(fs[out])
           /\ fs[in] = run.pre[in]

(***************************************************************************)
(* C7. Empty content: scrambling a 0-byte file makes a file of exactly 3   *)
(* bytes; descrambling that file with the same secret passes the check of  *)
(* the key and succeeds with a 0-byte output file, created although        *)
(* process64 is not called.                                                *)
(***************************************************************************)
C7_EmptyContent ==
  /\ (Done /\ run.descramble = 0 /\ w.status = 1
        /\ run.pre[PlainPath] = File(<<>>)) =>
       Len(Bytes(fs[ScrPath])) = 3
  /\ (Done /\ Descrambling /\ run.pKey = run.from[1].pKey /\ Undisturbed
        /\ run.from[1].content = <<>>) =>
       /\ w.status = 1
       /\ w.new_file = 1
       /\ fs[PlainPath] = File(<<>>)
       /\ ~w.processed

\* the 3-byte file made of an empty file has been descrambled
C7_Witness ==
  /\ Done /\ Descrambling /\ run.pKey = run.from[1].pKey /\ Undisturbed
  /\ run.from[1].content = <<>>
  /\ Len(Bytes(run.pre[ScrPath])) = 3
  /\ fs[PlainPath] = File(<<>>)

(***************************************************************************)
(* C8. Window-size independence: the bytes a successful call of process64  *)
(* has written are those it writes with any other positive window size.    *)
(***************************************************************************)
C8_WindowSizeIndependence ==
  (pc = "p_ret" /\ p.status = 1) =>
     \A ws \in 1..(MaxWin + MaxLen + 3) :
        Bytes(fs[out]) =
          Process64Out(Bytes(fs[in]), p.key, p.trailer, p.olen, ws)

\* a call with windows of 2 bytes, not a multiple of 3, has written 5 bytes
C8_Witness ==
  /\ pc = "p_ret" /\ p.status = 1
  /\ run.winsize = 2
  /\ p.olen = 5
  /\ p.windows = 3

(***************************************************************************)
(* C9. Exclusive output creation: if a file exists at the output path, the *)
(* run never gets past the creation of the output file, it fails, and      *)
(* both files stay as they were.                                           *)
(***************************************************************************)
C9_ExclusiveCreate ==
  (pc \notin {"idle"} /\ Exists(run.pre[out])) =>
     /\ w.new_file = 0
     /\ fs = run.pre
     /\ pc \notin AfterCreate
     /\ pc \in {"cleanup", "done"} => w.status = 0

\* the creation of the output file has failed on an existing file, and the
\* run has ended
C9_Witness ==
  /\ Done /\ Exists(run.pre[out])
  /\ w.err = "create"
  /\ run.faults = 0
  /\ fs = run.pre

(***************************************************************************)
(* C11. Output length: at the end of every successful run the output file  *)
(* is 3 bytes longer than the input was when scrambling and 3 bytes        *)
(* shorter when descrambling; a descramble run on an input shorter than 3  *)
(* bytes never creates an output file and never succeeds, and with a valid *)
(* secret and no failing system call its error is the missing trailer.     *)
(***************************************************************************)
C11_OutputLength ==
  /\ (Done /\ w.status = 1) =>
       /\ Exists(fs[out])
       /\ Len(Bytes(fs[out])) =
            IF run.descramble = 1 THEN Len(Bytes(run.pre[in])) - 3
                                  ELSE Len(Bytes(run.pre[in])) + 3
  /\ (pc \notin {"idle"} /\ run.descramble = 1 /\ Exists(run.pre[in])
        /\ Len(Bytes(run.pre[in])) < 3) =>
       /\ w.new_file = 0
       /\ pc \notin AfterCreate
       /\ fs[out] = run.pre[out]
       /\ Done =>
            /\ w.status = 0
            /\ (run.faults = 0 /\ deriveKey(run.pKey) >= 0) =>
                  w.err = "missing trailer"

\* a file of one byte has been refused for its missing trailer
C11_Witness ==
  /\ Done /\ run.descramble = 1
  /\ Exists(run.pre[ScrPath])
  /\ Len(Bytes(run.pre[ScrPath])) = 1
  /\ run.faults = 0
  /\ w.err = "missing trailer"
  /\ w.new_file = 0

(***************************************************************************)
(* SpecKeyRun: deriveKey on every secret of SpecKey, and the runs of       *)
(* warp64 of Spec, as one specification: a behaviour is one of either.     *)
(***************************************************************************)
InitKeyRun == InitKey \/ Init

KR_Derive == pc = "off" /\ K_Derive

KR_Invert == pc = "off" /\ K_Invert

NextKeyRun == KR_Derive \/ KR_Invert \/ Next

SpecKeyRun == InitKeyRun /\ [][NextKeyRun]_vars

\* the base-64 alphabet: A-Z a-z 0-9 + /
B64Alphabet == (65..90) \cup (97..122) \cup (48..57) \cup {43, 47}

\* the secret is empty or has a character outside the alphabet
BadSecret(s) == Len(s) = 0 \/ \E i \in 1..Len(s) : s[i] \notin B64Alphabet

(***************************************************************************)
(* C12. Key-derivation failure: deriveKey returns -1 exactly when the      *)
(* secret is empty or has a character outside the base-64 alphabet; and a  *)
(* run of warp64 fails with the bad-key error exactly then, without        *)
(* opening the input, creating the output or changing any file.            *)
(***************************************************************************)
C12_KeyDerivationFailure ==
  /\ kResult # <<>> => (kResult[1] = -1 <=> BadSecret(kSecret))
  /\ pc \notin {"off", "idle", "derive"} =>
       /\ w.err = "bad key" <=> BadSecret(run.pKey)
       /\ BadSecret(run.pKey) =>
            /\ w.status = 0
            /\ pc \in {"close", "cleanup", "done"}
            /\ w.fIn = -1
            /\ w.new_file = 0
            /\ fs = run.pre

\* a run on an existing file with the secret "-" has ended on the bad key
C12_Witness ==
  /\ Done
  /\ run.pKey = <<45>>
  /\ w.status = 0 /\ w.err = "bad key"
  /\ Exists(run.pre[in])
  /\ fs = run.pre

(***************************************************************************)
(* C13. Per-offset substitution: after a successful call of process64,     *)
(* the byte at every output offset n is (in(n) + key[n mod 3]) mod 256,    *)
(* where key[0..2] are the octets of the key passed in, most significant   *)
(* first, and in(n) is the input byte at offset n below the content length *)
(* (olen - 3 with the trailer flag, olen without) and 0 from there on.     *)
(***************************************************************************)
C13_PerOffsetSubstitution ==
  (pc = "p_ret" /\ p.status = 1) =>
     LET input == Bytes(fs[in])
         o     == Bytes(fs[out])
         c     == IF p.trailer = 1 THEN p.olen - 3 ELSE p.olen
         key   == <<(p.key \div 65536) % 256, (p.key \div 256) % 256,
                    p.key % 256>>
     IN  /\ Len(o) = p.olen
         /\ \A n \in 0..(p.olen - 1) :
              o[n + 1] = ((IF n < c THEN input[n + 1] ELSE 0)
                            + key[(n % 3) + 1]) % 256

\* a call that descrambles 3 bytes in windows of 2 has returned: the second
\* window starts at offset 2, in the middle of the round of the key bytes
C13_Witness ==
  /\ pc = "p_ret" /\ p.status = 1
  /\ p.trailer = 0
  /\ p.olen = 3
  /\ run.winsize = 2
  /\ p.windows = 2

(***************************************************************************)
(* The key of a valid secret as the specification describes it: the XOR    *)
(* of the 24-bit big-endian packings of the groups of four characters,     *)
(* the last group completed with extension characters, and the zero        *)
(* octets replaced.                                                        *)
(***************************************************************************)
\* the digit of a character: its place in A-Z a-z 0-9 + /
RefDigit(c) ==
  CHOOSE v \in 0..63 :
    c = (IF v < 26 THEN 65 + v
         ELSE IF v < 52 THEN 97 + (v - 26)
         ELSE IF v < 62 THEN 48 + (v - 52)
         ELSE IF v = 62 THEN 43 ELSE 47)

\* the extension characters of a secret
RefExt(S) ==
  IF Len(S) = 1 THEN <<S[1], S[1], S[1]>>
  ELSE IF Len(S) = 2 THEN <<S[1], S[2], S[1]>>
  ELSE SubSeq(S, 1, 3)

\* the number of groups, and the secret completed to that many groups
RefGroups(S) == (Len(S) + 3) \div 4

RefPadded(S) ==
  [j \in 1..(4 * RefGroups(S)) |->
     IF j <= Len(S) THEN S[j] ELSE RefExt(S)[j - Len(S)]]

\* the packing of group g (from 1) of the completed secret
RefPack(S, g) ==
  LET d(i) == RefDigit(RefPadded(S)[4 * (g - 1) + i])
  IN  d(1) * 262144 + d(2) * 4096 + d(3) * 64 + d(4)

\* the packings of all the groups
RefPacks(S) == [g \in 1..RefGroups(S) |-> RefPack(S, g)]

\* bit b of the XOR of the first g packings: the parity of their bits b
RECURSIVE RefParity(_, _, _)
RefParity(packs, g, b) ==
  IF g = 0 THEN 0
  ELSE (((packs[g] \div (2 ^ b)) % 2) + RefParity(packs, g - 1, b)) % 2

RECURSIVE RefXor(_, _)
RefXor(packs, b) ==
  IF b = 24 THEN 0
  ELSE RefParity(packs, Len(packs), b) * (2 ^ b) + RefXor(packs, b + 1)

RefKey(S) ==
  LET x  == RefXor(RefPacks(S), 0)
      b0 == x \div 65536
      b1 == (x \div 256) % 256
      b2 == x % 256
  IN  (IF b0 = 0 THEN 1 ELSE b0) * 65536
        + (IF b1 = 0 THEN 2 ELSE b1) * 256
        + (IF b2 = 0 THEN 4 ELSE b2)

(***************************************************************************)
(* C14. Key derivation: for every valid secret deriveKey returns the XOR   *)
(* of the 24-bit packings of its groups of four characters, the last       *)
(* group of r < 4 characters completed with the first 4 - r extension      *)
(* characters, with zero octets 0, 1, 2 replaced by 1, 2, 4; so a secret   *)
(* of two characters xy derives the key of xyxy.                           *)
(***************************************************************************)
C14_KeyDerivation ==
  (kResult # <<>> /\ ~BadSecret(kSecret)) =>
     /\ kResult[1] = RefKey(kSecret)
     /\ Len(kSecret) = 2 => kResult[1] = deriveKey(kSecret \o kSecret)

\* the secret "0a/+a" has been derived: a full group and a group of one
\* character completed with the three extension characters "0a/"
C14_Witness ==
  /\ kSecret = <<48, 97, 47, 43, 97>>
  /\ kResult # <<>>
  /\ kResult[1] >= 0
  /\ kResult[1] = RefKey(kSecret)
  /\ kResult[1] # deriveKey(<<48, 97, 47, 43>>)

\* the run descrambles and has compared the trailer with the key
VerifyDone ==
  /\ run.descramble = 1
  /\ pc \notin {"idle", "derive", "open", "length", "trailer", "verify"}
  /\ w.err \in {"", "incorrect key", "create", "set output length", "map"}

(***************************************************************************)
(* C15. Rotation index: for every content length c >= 0 of a scrambled     *)
(* input, 0, 1 and 2 included, the indices (z + i) % 3 that the check of   *)
(* the key uses are in 0..2 and are (((3 - (c mod 3)) mod 3) + i) mod 3,   *)
(* so the integer compared with the key is the trailer in that order.      *)
(***************************************************************************)
C15_RotationIndex ==
  VerifyDone =>
    LET c    == Len(Bytes(run.pre[ScrPath])) - 3
        t    == LastThree(Bytes(run.pre[ScrPath]))
        r(i) == (((3 - (c % 3)) % 3) + i) % 3
    IN  /\ c >= 0
        /\ \A i \in 0..2 :
             /\ TrailerIndex(w.z, i) \in 0..2
             /\ TrailerIndex(w.z, i) = r(i)
        /\ w.tk = (t[r(0) + 1] * 256 + t[r(1) + 1]) * 256 + t[r(2) + 1]

\* the trailer after a content of one byte has passed the check: c - 3 is
\* negative, its remainder is -2 and z is 5
C15_Witness ==
  /\ VerifyDone
  /\ Len(Bytes(run.pre[ScrPath])) = 4
  /\ w.z = 5
  /\ w.err = ""
  /\ pc = "create"

\* the positions inside a call of process64
InProcess64 ==
  {"p_loop", "p_mapout", "p_mapin", "p_compute", "p_unmapin", "p_unmapout",
   "p_update", "p_cleanup", "p_ret"}

C17_NoStrayUnmap ==
  pc \in InProcess64 => p.munmapArgs \subseteq {"MAPPED"}

(***************************************************************************)
(* SpecLive: Spec with the fairness of a sequential program: a run that    *)
(* has started takes its next step.                                        *)
(***************************************************************************)
RunStep ==
  \/ W_Derive \/ W_Open \/ W_Length \/ W_Trailer \/ W_Verify \/ W_Create
  \/ W_Olen \/ W_Presize \/ W_Invert \/ W_Process
  \/ P_Loop \/ P_MapOut \/ P_MapIn \/ P_Compute \/ P_UnmapIn \/ P_UnmapOut
  \/ P_Update \/ P_Cleanup
  \/ W_Processed \/ W_Close \/ W_Finish

SpecLive == Spec /\ WF_vars(RunStep)

\* ceil(olen / winsize)
CeilDiv(a, b) == (a + b - 1) \div b

\* the positions of process64 inside the body of its loop
InWindow ==
  {"p_mapout", "p_mapin", "p_compute", "p_unmapin", "p_unmapout", "p_update"}

\* what holds of the windows in every state of process64
WindowsBounded ==
  pc \in InProcess64 =>
    /\ p.windows <= CeilDiv(p.olen, run.winsize)
    /\ (pc = "p_ret" /\ p.status = 1) =>
          p.windows = CeilDiv(p.olen, run.winsize)
    /\ pc \in InWindow =>
         /\ p.status = 1
         /\ p.ws >= 1
         /\ p.ws = (IF p.remc < run.winsize THEN p.remc ELSE run.winsize)
         /\ p.windows < CeilDiv(p.olen, run.winsize)

\* after a failure no window is begun: the loop is left
StopsAtFailure ==
  (pc \in InProcess64 /\ p.status = 0) =>
     /\ pc' \notin InWindow
     /\ p'.windows = p.windows
     /\ fs' = fs

(***************************************************************************)
(* C18. Termination: every run of warp64 ends, in success or in failure;   *)
(* the loop of process64 processes at most ceil(olen / winsize) windows,   *)
(* each of min(winsize, remaining) >= 1 bytes, and begins no window after  *)
(* the first failure of a mapping or unmapping.                            *)
(***************************************************************************)
C18_Termination ==
  /\ (pc = "derive") ~> Done
  /\ []WindowsBounded
  /\ [][StopsAtFailure]_vars

\* a run has ended after process64 took the three windows of 1 byte that
\* 3 output bytes need
C18_Witness ==
  /\ Done
  /\ w.processed
  /\ p.olen = 3
  /\ run.winsize = 1
  /\ p.windows = 3
  /\ w.status = 1

(***************************************************************************)
(* C19. Window bookkeeping: at the start of each iteration of the loop of  *)
(* process64, base + remc = olen, 0 <= remi <= remc and remi = max(0,      *)
(* content length - base), the content length being olen - 3 with the      *)
(* trailer flag and olen without; so in the body 0 <= wsi <= ws, and the   *)
(* input offsets read, base .. base + wsi - 1, are below the content       *)
(* length and inside the input file.                                       *)
(***************************************************************************)
C19_WindowBookkeeping ==
  LET c == IF p.trailer = 1 THEN p.olen - 3 ELSE p.olen
  IN  /\ pc = "p_loop" =>
           /\ p.base + p.remc = p.olen
           /\ 0 <= p.remi /\ p.remi <= p.remc
           /\ p.remi = (IF c - p.base > 0 THEN c - p.base ELSE 0)
      /\ pc \in InWindow =>
           /\ 0 <= p.wsi /\ p.wsi <= p.ws
           /\ \A n \in p.base..(p.base + p.wsi - 1) :
                n < c /\ n < Len(Bytes(fs[in]))

\* the third iteration of a scramble of two bytes in windows of one byte
\* starts: the input is used up and the three bytes of the trailer are left
C19_Witness ==
  /\ pc = "p_loop"
  /\ p.status = 1
  /\ p.trailer = 1
  /\ p.windows = 2
  /\ p.base = 2
  /\ p.remi = 0
  /\ p.remc = 3

====
